---- MODULE Spec2Model ----
(***************************************************************************)
(* Server actions of the invoice dashboard (createInvoice, updateInvoice,  *)
(* deleteInvoice, authenticate) and the dashboard Layout session gate.     *)
(*                                                                         *)
(* A request slot runs one server function at a time.  The synchronous     *)
(* prefix of a handler (identifier check, normalisation, validation) is    *)
(* one step; the awaited SQL statement is a second step, executed          *)
(* atomically by the database or failing with a driver message; the        *)
(* continuation after the await (revalidatePath + return, or the catch     *)
(* clause) is a third step.                                                *)
(*                                                                         *)
(* JavaScript values are tagged records [t |-> type, v |-> payload].       *)
(* zod is modelled as zod 3, the major version whose parameter names       *)
(* (invalid_type_error) the schema uses.                                   *)
(***************************************************************************)
EXTENDS Integers, Sequences, FiniteSets, TLC

\* Number of rows the storage will assign an identifier to.
MaxInvoices == 2

----------------------------------------------------------------------------
(* JavaScript values                                                       *)

JsString(s) == [t |-> "string", v |-> s]
UndefinedStr == [t |-> "undefined", v |-> ""]
JsNumber(n) == [t |-> "number", v |-> n]
NaN == [t |-> "nan", v |-> 0]
UndefinedNum == [t |-> "undefined", v |-> 0]

Digits == {"0", "1", "2", "3", "4", "5", "6", "7", "8", "9"}

DigitVal(c) ==
  CASE c = "0" -> 0 [] c = "1" -> 1 [] c = "2" -> 2 [] c = "3" -> 3
    [] c = "4" -> 4 [] c = "5" -> 5 [] c = "6" -> 6 [] c = "7" -> 7
    [] c = "8" -> 8 [] c = "9" -> 9

RECURSIVE DigitsValue(_)
DigitsValue(s) ==
  IF s = <<>> THEN 0
  ELSE 10 * DigitsValue(SubSeq(s, 1, Len(s) - 1)) + DigitVal(s[Len(s)])

AllDigits(s) == Len(s) > 0 /\ \A i \in 1..Len(s) : s[i] \in Digits

\* Number(text) on a string given as its sequence of characters: the empty
\* string is 0, an optionally signed run of decimal digits is its value, and
\* every other text of the input alphabet used here is NaN.
Number(s) ==
  IF s = <<>> THEN JsNumber(0)
  ELSE IF AllDigits(s) THEN JsNumber(DigitsValue(s))
  ELSE IF s[1] = "-" /\ AllDigits(Tail(s)) THEN JsNumber(0 - DigitsValue(Tail(s)))
  ELSE IF s[1] = "+" /\ AllDigits(Tail(s)) THEN JsNumber(DigitsValue(Tail(s)))
  ELSE NaN

\* x ?? null
NullishToNull(x) == IF x.t \in {"undefined", "null"} THEN [t |-> "null", v |-> x.v] ELSE x

----------------------------------------------------------------------------
(* Form data and its normalisation                                         *)

Fields == {"customerId", "amount", "status"}

\* formData.get(name)?.toString(): undefined when the entry is absent.
NormString(formData, name) ==
  IF name \in DOMAIN formData THEN JsString(formData[name]) ELSE UndefinedStr

\* rawAmount != null ? Number(rawAmount.toString()) : undefined
NormAmount(formData) ==
  IF "amount" \in DOMAIN formData THEN Number(formData["amount"]) ELSE UndefinedNum

Normalize(formData) ==
  [customerId |-> NormString(formData, "customerId"),
   amount     |-> NormAmount(formData),
   status     |-> NormString(formData, "status")]

----------------------------------------------------------------------------
(* formSchema (zod)                                                        *)

MsgRequired == "Required"
MsgNaN == "Expected number, received nan"
MsgCustomer == "Please select a customer."
MsgAmount == "Please enter an amount greater than $0."
MsgStatus == "Please select an invoice status."
StatusEnum == {"pending", "paid"}
MsgEnum(received) ==
  "Invalid enum value. Expected 'pending' | 'paid', received '" \o received \o "'"

\* z.string({invalid_type_error}): an undefined input reports zod's
\* required_error (default "Required"); invalid_type_error is for a defined
\* value of another type.
CustomerIdIssues(x) ==
  IF x.t = "string" THEN <<>>
  ELSE IF x.t = "undefined" THEN <<MsgRequired>>
  ELSE <<MsgCustomer>>

\* z.coerce.number(): Number(input) first.
CoerceNumber(x) == IF x.t = "number" THEN x ELSE NaN

\* Faulty variant: .gte(0) in place of .gt(0).
AmountIssuesGte(x) ==
  LET n == CoerceNumber(x) IN
  IF n.t # "number" THEN <<MsgNaN>>
  ELSE IF n.v >= 0 THEN <<>>
  ELSE <<MsgAmount>>

\* .gt(0, {message})
AmountIssues(x) ==
  LET n == CoerceNumber(x) IN
  IF n.t # "number" THEN <<MsgNaN>>
  ELSE IF n.v > 0 THEN <<>>
  ELSE <<MsgAmount>>

\* Faulty variant: z.string() in place of z.enum([...]).
StatusIssuesAnyString(x) ==
  IF x.t = "undefined" THEN <<MsgRequired>>
  ELSE IF x.t # "string" THEN <<MsgStatus>>
  ELSE <<>>

\* z.enum(['pending', 'paid'], {invalid_type_error})
StatusIssues(x) ==
  IF x.t = "undefined" THEN <<MsgRequired>>
  ELSE IF x.t # "string" THEN <<MsgStatus>>
  ELSE IF x.v \in StatusEnum THEN <<>>
  ELSE <<MsgEnum(x.v)>>

Issues(input) ==
  [customerId |-> CustomerIdIssues(input.customerId),
   amount     |-> AmountIssues(input.amount),
   status     |-> StatusIssues(input.status)]

\* error.flatten().fieldErrors: only the fields that have issues.
FieldErrors(input) ==
  LET iss == Issues(input)
      bad == {f \in Fields : iss[f] # <<>>}
  IN [f \in bad |-> iss[f]]

\* createInvoiceSchema / updateInvoiceSchema .safeParse(input)
SafeParse(input) ==
  [success |-> DOMAIN FieldErrors(input) = {},
   data    |-> [customerId |-> input.customerId,
                amount     |-> CoerceNumber(input.amount),
                status     |-> input.status],
   errors  |-> FieldErrors(input)]

----------------------------------------------------------------------------
(* Inputs                                                                  *)

RawCustomers == {"c1", "c2"}
RawAmounts == {<<>>, <<"a", "b", "c">>, <<"0">>, <<"-", "1">>, <<"1">>, <<"2">>}
RawStatuses == {"pending", "paid", "foo"}

\* Every FormData over the three fields: each entry present or absent.
AllForms ==
  {[f \in D |-> full[f]] :
     full \in [customerId : RawCustomers, amount : RawAmounts, status : RawStatuses],
     D \in SUBSET Fields}

\* The forms submitted by the concurrent requests: every entry present, the
\* amount and the status valid or not.
ConcForms ==
  [customerId : {"c1"}, amount : {<<"0">>, <<"1">>, <<"2">>}, status : RawStatuses]

StoredIds == {ToString(n) : n \in 1..MaxInvoices}
AllIds == {""} \cup StoredIds

DriverMsgs == {"connection refused", "violates foreign key constraint"}
ConcDriverMsgs == {"connection refused"}

AuthErrorTypes == {"CredentialsSignin", "CallbackRouteError", "AccessDenied"}
OtherErrors == {"NEXT_REDIRECT", "TypeError"}
SignInResults ==
  {[t |-> "ok", v |-> ""]}
    \cup {[t |-> "AuthError", v |-> ty] : ty \in AuthErrorTypes}
    \cup {[t |-> "Error", v |-> e] : e \in OtherErrors}
AuthResults ==
  {[t |-> "session", v |-> "user1"], [t |-> "null", v |-> ""],
   [t |-> "Error", v |-> "MissingSecret"]}

Slots == {"r1", "r2"}
SeqSlots == {"r1"}

----------------------------------------------------------------------------
(* State                                                                   *)

VARIABLES
  invoices,   \* the invoices table: id -> row
  nextId,     \* the next identifier the storage assigns
  reqs        \* per request slot: the server function it runs and where it is

vars == <<invoices, nextId, reqs>>

NoStmt ==
  [kind |-> "none", id |-> "", customerId |-> UndefinedStr,
   amount |-> UndefinedNum, status |-> UndefinedStr]
NoExt == [t |-> "none", v |-> ""]
NoOutcome ==
  [kind |-> "none", message |-> "", hasErrors |-> FALSE, errors |-> <<>>,
   content |-> {}]
Idle ==
  [pc |-> "idle", op |-> "none", id |-> "", formData |-> <<>>, stmt |-> NoStmt,
   ext |-> NoExt, trace |-> <<>>, outcome |-> NoOutcome]

\* A State value returned to the caller.
Returned(message, hasErrors, errors) ==
  [kind |-> "returned", message |-> message, hasErrors |-> hasErrors,
   errors |-> errors, content |-> {}]
\* A failure raised to the caller.
Thrown(name) ==
  [kind |-> "thrown", message |-> name, hasErrors |-> FALSE, errors |-> <<>>,
   content |-> {}]

Init ==
  /\ invoices = <<>>
  /\ nextId = 1
  /\ reqs = [r \in Slots |-> Idle]

InvoiceOps == {"createInvoice", "updateInvoice", "deleteInvoice"}

ValidationMsg(op) ==
  IF op = "createInvoice" THEN "Missing Fields. Failed to Create Invoice."
  ELSE "Missing fields. Failed to update invoice."
SuccessMsg(op) ==
  CASE op = "createInvoice" -> "Invoice created successfully"
    [] op = "updateInvoice" -> "Invoice updated successfully"
    [] op = "deleteInvoice" -> "Invoice deleted successfully"
ErrorPrefix(op) ==
  CASE op = "createInvoice" -> "Error creating invoice: "
    [] op = "updateInvoice" -> "Error updating invoice: "
    [] op = "deleteInvoice" -> "Error deleting invoice: "
MsgIdRequired == "Invoice ID is required."

\* The request returns (or raises) `outcome`.
Finish(q, outcome) ==
  [q EXCEPT !.pc = "done", !.outcome = outcome,
            !.trace = Append(@, <<outcome.kind, outcome.message>>)]

----------------------------------------------------------------------------
(* SQL statements                                                          *)

\* INSERT INTO invoices (customer_id, amount, status, date) VALUES (..., now());
\* the storage assigns the id, and now() is the ordinal of the insertion.
Insert(table, nid, stmt) ==
  [i \in DOMAIN table \cup {ToString(nid)} |->
     IF i \in DOMAIN table THEN table[i]
     ELSE [id |-> i, customer_id |-> stmt.customerId, amount |-> stmt.amount,
           status |-> stmt.status, date |-> nid]]

\* COALESCE(param, column)
Coalesce(param, column) == IF param.t = "null" THEN column ELSE param

\* Faulty variant: the UPDATE without its WHERE clause.
UpdateNoWhere(table, stmt) ==
  [i \in DOMAIN table |->
     [table[i] EXCEPT !.customer_id = Coalesce(stmt.customerId, @),
                      !.amount = Coalesce(stmt.amount, @),
                      !.status = Coalesce(stmt.status, @)]]

\* UPDATE invoices SET c = COALESCE(p, c), ... WHERE id = ${id}
Update(table, stmt) ==
  [i \in DOMAIN table |->
     IF i = stmt.id
     THEN [table[i] EXCEPT !.customer_id = Coalesce(stmt.customerId, @),
                           !.amount = Coalesce(stmt.amount, @),
                           !.status = Coalesce(stmt.status, @)]
     ELSE table[i]]

\* DELETE FROM invoices WHERE id = ${id}
Delete(table, stmt) == [i \in DOMAIN table \ {stmt.id} |-> table[i]]

Execute(table, nid, stmt) ==
  CASE stmt.kind = "insert" -> Insert(table, nid, stmt)
    [] stmt.kind = "update" -> Update(table, stmt)
    [] stmt.kind = "delete" -> Delete(table, stmt)

----------------------------------------------------------------------------
(* Invoice command handlers                                                *)

\* The statement parameters built from the validated data: x ?? null each.
Params(kind, id, data) ==
  [kind |-> kind, id |-> id,
   customerId |-> NullishToNull(data.customerId),
   amount     |-> NullishToNull(data.amount),
   status     |-> NullishToNull(data.status)]

\* Normalise, validate, and either return the field errors or go on to the
\* statement.
ValidateThen(q, kind) ==
  LET parsed == SafeParse(Normalize(q.formData)) IN
  IF ~parsed.success
  THEN Finish(q, Returned(ValidationMsg(q.op), TRUE, parsed.errors))
  ELSE [q EXCEPT !.pc = "sql", !.stmt = Params(kind, q.id, parsed.data)]

CreateInvoiceBody(formData) ==
  ValidateThen([Idle EXCEPT !.op = "createInvoice", !.formData = formData], "insert")

CreateInvoice(r, forms) ==
  /\ reqs[r].pc = "idle"
  /\ \E formData \in forms :
       reqs' = [reqs EXCEPT ![r] = CreateInvoiceBody(formData)]
  /\ UNCHANGED <<invoices, nextId>>

\* Faulty variant: the identifier is checked after validation.
UpdateInvoiceBodyValidateFirst(id, formData) ==
  LET q == [Idle EXCEPT !.op = "updateInvoice", !.id = id, !.formData = formData]
      next == ValidateThen(q, "update")
  IN IF next.pc = "sql" /\ id = "" THEN Finish(q, Returned(MsgIdRequired, FALSE, <<>>))
     ELSE next

UpdateInvoiceBody(id, formData) ==
  LET q == [Idle EXCEPT !.op = "updateInvoice", !.id = id, !.formData = formData] IN
  IF id = "" THEN Finish(q, Returned(MsgIdRequired, FALSE, <<>>))
  ELSE ValidateThen(q, "update")

UpdateInvoice(r, ids, forms) ==
  /\ reqs[r].pc = "idle"
  /\ \E id \in ids, formData \in forms :
       reqs' = [reqs EXCEPT ![r] = UpdateInvoiceBody(id, formData)]
  /\ UNCHANGED <<invoices, nextId>>

DeleteInvoiceBody(id) ==
  LET q == [Idle EXCEPT !.op = "deleteInvoice", !.id = id] IN
  IF id = "" THEN Finish(q, Returned(MsgIdRequired, FALSE, <<>>))
  ELSE [q EXCEPT !.pc = "sql", !.stmt = [NoStmt EXCEPT !.kind = "delete", !.id = id]]

DeleteInvoice(r, ids) ==
  /\ reqs[r].pc = "idle"
  /\ \E id \in ids :
       reqs' = [reqs EXCEPT ![r] = DeleteInvoiceBody(id)]
  /\ UNCHANGED <<invoices, nextId>>

\* await sql`...` completes: the database has executed the statement.
SqlSucceed(r) ==
  LET q == reqs[r] IN
  /\ q.pc = "sql"
  /\ q.stmt.kind = "insert" => nextId <= MaxInvoices
  /\ invoices' = Execute(invoices, nextId, q.stmt)
  /\ nextId' = IF q.stmt.kind = "insert" THEN nextId + 1 ELSE nextId
  /\ reqs' = [reqs EXCEPT ![r] =
                [q EXCEPT !.pc = "resumed", !.ext = [t |-> "ok", v |-> ""],
                          !.trace = Append(@, <<"sql", "ok">>)]]

\* await sql`...` rejects with a driver error: nothing was stored.
SqlFail(r, msgs) ==
  LET q == reqs[r] IN
  /\ q.pc = "sql"
  /\ \E msg \in msgs :
       reqs' = [reqs EXCEPT ![r] =
                  [q EXCEPT !.pc = "caught", !.ext = [t |-> "Error", v |-> msg],
                            !.trace = Append(@, <<"sql", "error">>)]]
  /\ UNCHANGED <<invoices, nextId>>

\* Faulty variant: the success result is returned without revalidatePath.
AfterSqlBodyNoRevalidate(q) == Finish(q, Returned(SuccessMsg(q.op), FALSE, <<>>))

\* revalidatePath('/invoices'); return { message: '... successfully' }
AfterSqlBody(q) ==
  Finish([q EXCEPT !.trace = Append(@, <<"revalidatePath", "/invoices">>)],
         Returned(SuccessMsg(q.op), FALSE, <<>>))

AfterSql(r) ==
  /\ reqs[r].pc = "resumed"
  /\ reqs' = [reqs EXCEPT ![r] = AfterSqlBody(reqs[r])]
  /\ UNCHANGED <<invoices, nextId>>

\* Faulty variant: the catch clause rethrows.
CatchBodyRethrow(q) == Finish(q, Thrown(q.ext.v))

\* catch (error) { return { message: `Error ... invoice: ${error.message}` } }
CatchBody(q) == Finish(q, Returned(ErrorPrefix(q.op) \o q.ext.v, FALSE, <<>>))

Catch(r) ==
  /\ reqs[r].pc = "caught"
  /\ reqs' = [reqs EXCEPT ![r] = CatchBody(reqs[r])]
  /\ UNCHANGED <<invoices, nextId>>

----------------------------------------------------------------------------
(* authenticate                                                            *)

\* Faulty variant: every failure is mapped to a message, none re-raised.
AuthenticateBodySwallow(signInResult) ==
  LET q == [Idle EXCEPT !.op = "authenticate", !.ext = signInResult,
                        !.trace = <<<<"signIn", "credentials">>>>] IN
  IF signInResult.t = "ok" THEN Finish(q, Returned("Success", FALSE, <<>>))
  ELSE IF signInResult.t = "AuthError" /\ signInResult.v = "CredentialsSignin"
  THEN Finish(q, Returned("Invalid credentials.", FALSE, <<>>))
  ELSE Finish(q, Returned("Something went wrong.", FALSE, <<>>))

AuthenticateBody(signInResult) ==
  LET q == [Idle EXCEPT !.op = "authenticate", !.ext = signInResult,
                        !.trace = <<<<"signIn", "credentials">>>>] IN
  IF signInResult.t = "ok" THEN Finish(q, Returned("Success", FALSE, <<>>))
  ELSE IF signInResult.t = "AuthError"
  THEN IF signInResult.v = "CredentialsSignin"
       THEN Finish(q, Returned("Invalid credentials.", FALSE, <<>>))
       ELSE Finish(q, Returned("Something went wrong.", FALSE, <<>>))
  ELSE Finish(q, Thrown(signInResult.v))

Authenticate(r) ==
  /\ reqs[r].pc = "idle"
  /\ \E signInResult \in SignInResults :
       reqs' = [reqs EXCEPT ![r] = AuthenticateBody(signInResult)]
  /\ UNCHANGED <<invoices, nextId>>

----------------------------------------------------------------------------
(* Dashboard Layout                                                        *)

Redirect(path) ==
  [kind |-> "redirect", message |-> path, hasErrors |-> FALSE, errors |-> <<>>,
   content |-> {}]
Rendered(content) ==
  [kind |-> "rendered", message |-> "", hasErrors |-> FALSE, errors |-> <<>>,
   content |-> content]

\* Faulty variant: the redirect does not end the render.
LayoutBodyRenderAfterRedirect(authResult) ==
  LET q == [Idle EXCEPT !.op = "Layout", !.ext = authResult,
                        !.trace = <<<<"auth", "">>>>] IN
  IF authResult.t = "Error" THEN Finish(q, Thrown(authResult.v))
  ELSE IF authResult.t = "null"
  THEN Finish([q EXCEPT !.trace = Append(@, <<"redirect", "/login">>)],
              Rendered({"SideNav", "children"}))
  ELSE Finish(q, Rendered({"SideNav", "children"}))

\* Faulty variant: a failure of auth() is caught and taken for no session.
LayoutBodyCatchAsAbsent(authResult) ==
  LET q == [Idle EXCEPT !.op = "Layout", !.ext = authResult,
                        !.trace = <<<<"auth", "">>>>] IN
  IF authResult.t \in {"Error", "null"} THEN Finish(q, Redirect("/login"))
  ELSE Finish(q, Rendered({"SideNav", "children"}))

LayoutBody(authResult) ==
  LET q == [Idle EXCEPT !.op = "Layout", !.ext = authResult,
                        !.trace = <<<<"auth", "">>>>] IN
  IF authResult.t = "Error" THEN Finish(q, Thrown(authResult.v))
  ELSE IF authResult.t = "null" THEN Finish(q, Redirect("/login"))
  ELSE Finish(q, Rendered({"SideNav", "children"}))

Layout(r) ==
  /\ reqs[r].pc = "idle"
  /\ \E authResult \in AuthResults :
       reqs' = [reqs EXCEPT ![r] = LayoutBody(authResult)]
  /\ UNCHANGED <<invoices, nextId>>

----------------------------------------------------------------------------
(* The caller takes the result; the slot is free for the next request.     *)

Return(r) ==
  /\ reqs[r].pc = "done"
  /\ reqs' = [reqs EXCEPT ![r] = Idle]
  /\ UNCHANGED <<invoices, nextId>>

----------------------------------------------------------------------------
(* Specifications                                                          *)

\* One request at a time, over every input.
Next ==
  \E r \in SeqSlots :
    \/ CreateInvoice(r, AllForms)
    \/ UpdateInvoice(r, AllIds, AllForms)
    \/ DeleteInvoice(r, AllIds)
    \/ SqlSucceed(r)
    \/ SqlFail(r, DriverMsgs)
    \/ AfterSql(r)
    \/ Catch(r)
    \/ Authenticate(r)
    \/ Layout(r)
    \/ Return(r)

Spec == Init /\ [][Next]_vars

\* Concurrent requests: the statements of the handlers interleave.
ConcNext ==
  \E r \in Slots :
    \/ CreateInvoice(r, ConcForms)
    \/ UpdateInvoice(r, StoredIds, ConcForms)
    \/ DeleteInvoice(r, StoredIds)
    \/ SqlSucceed(r)
    \/ SqlFail(r, ConcDriverMsgs)
    \/ AfterSql(r)
    \/ Catch(r)
    \/ Return(r)

ConcSpec == Init /\ [][ConcNext]_vars

----------------------------------------------------------------------------
(* Properties                                                              *)

\* The positions of the events named `what` in a trace.
Events(tr, what) == {i \in 1..Len(tr) : tr[i][1] = what}

CreateOrUpdate(q) ==
  \/ q.op = "createInvoice"
  \/ q.op = "updateInvoice" /\ q.id # ""

\* The amount entry is missing, or its text is zero (the empty text is zero
\* too), negative or no number.
BadAmount(formData) ==
  \/ "amount" \notin DOMAIN formData
  \/ formData["amount"] \in {<<>>, <<"a", "b", "c">>, <<"0">>, <<"-", "1">>}

\* C1: a createInvoice or updateInvoice (non-empty id) whose amount is
\* missing, zero, negative or not a number returns, in the step that invokes
\* it, a result with an errors.amount entry; no statement was executed, no
\* invalidation was signalled, and the invoices table is unchanged.
C1_BadAmountRejected ==
  [][\A r \in Slots :
       (reqs[r].pc = "idle" /\ CreateOrUpdate(reqs'[r])
          /\ BadAmount(reqs'[r].formData))
       => /\ reqs'[r].pc = "done"
          /\ reqs'[r].outcome.kind = "returned"
          /\ reqs'[r].outcome.hasErrors
          /\ "amount" \in DOMAIN reqs'[r].outcome.errors
          /\ reqs'[r].outcome.errors["amount"] # <<>>
          /\ Events(reqs'[r].trace, "sql") = {}
          /\ Events(reqs'[r].trace, "revalidatePath") = {}
          /\ invoices' = invoices /\ nextId' = nextId]_vars

C1_Witness ==
  \E r \in Slots :
    /\ reqs[r].pc = "done" /\ reqs[r].op = "updateInvoice"
    /\ reqs[r].id \in DOMAIN invoices
    /\ DOMAIN reqs[r].formData = Fields
    /\ reqs[r].formData["amount"] = <<"-", "1">>
    /\ reqs[r].formData["status"] = "paid"
    /\ DOMAIN reqs[r].outcome.errors = {"amount"}

\* C2: deleteInvoice and updateInvoice with an empty identifier return
\* exactly {message: "Invoice ID is required."}, whatever the form holds,
\* without executing a statement or signalling an invalidation.
C2_EmptyIdRejected ==
  [][\A r \in Slots :
       (reqs[r].pc = "idle" /\ reqs'[r].op \in {"updateInvoice", "deleteInvoice"}
          /\ reqs'[r].id = "")
       => /\ reqs'[r].pc = "done"
          /\ reqs'[r].outcome = Returned(MsgIdRequired, FALSE, <<>>)
          /\ reqs'[r].trace = <<<<"returned", MsgIdRequired>>>>
          /\ invoices' = invoices /\ nextId' = nextId]_vars

C2_Witness ==
  \E r \in Slots :
    /\ reqs[r].pc = "done" /\ reqs[r].op = "updateInvoice" /\ reqs[r].id = ""
    /\ SafeParse(Normalize(reqs[r].formData)).success
    /\ reqs[r].outcome.message = MsgIdRequired
    /\ invoices # <<>>

\* C3: in every invocation of an invoice handler the invalidation of
\* "/invoices" is signalled once if the statement succeeded and never
\* otherwise, after the statement completed and before the success result
\* is returned.
C3_InvalidateOncePerSuccess ==
  \A r \in Slots :
    LET q == reqs[r]
        inv == Events(q.trace, "revalidatePath")
        sql == Events(q.trace, "sql")
        ret == Events(q.trace, "returned")
    IN q.op \in InvoiceOps =>
         /\ Cardinality(inv) <= 1
         /\ \A i \in inv :
              /\ q.trace[i][2] = "/invoices"
              /\ \E j \in sql : j < i /\ q.trace[j][2] = "ok"
              /\ \A k \in ret : i < k
         /\ q.pc = "done" =>
              /\ (inv # {}) <=> (\E j \in sql : q.trace[j][2] = "ok")
              /\ (inv # {}) <=> (q.outcome.message = SuccessMsg(q.op))
              /\ Cardinality(ret) = 1

C3_Witness ==
  \E r \in Slots :
    /\ reqs[r].pc = "done" /\ reqs[r].op = "updateInvoice"
    /\ reqs[r].trace = <<<<"sql", "ok">>, <<"revalidatePath", "/invoices">>,
                         <<"returned", "Invoice updated successfully">>>>

ErrorMessages == {ErrorPrefix(op) \o m : op \in InvoiceOps, m \in DriverMsgs}

C5_StoredInvoicesValid ==
  \A i \in DOMAIN invoices :
    /\ invoices[i].amount.t = "number" /\ invoices[i].amount.v > 0
    /\ invoices[i].status.t = "string"
    /\ invoices[i].status.v \in {"pending", "paid"}

\* Two updates of the same invoice in flight, one executed and one not yet.
C5_Witness ==
  /\ reqs["r1"].pc = "resumed" /\ reqs["r2"].pc = "sql"
  /\ reqs["r1"].stmt.kind = "update" /\ reqs["r2"].stmt.kind = "update"
  /\ reqs["r1"].id = reqs["r2"].id
  /\ reqs["r1"].id \in DOMAIN invoices
  /\ Cardinality(DOMAIN invoices) = MaxInvoices

NonNull(x) == x.t \notin {"undefined", "null"}

\* C6: a successful updateInvoice of a stored invoice sets customerId,
\* amount and status each to its validated value when that value is
\* non-null and keeps the stored value otherwise; the id, the date and
\* every other invoice stay as they were.
C6_UpdateCoalesces ==
  [][\A r \in Slots :
       (reqs[r].pc = "sql" /\ reqs[r].op = "updateInvoice"
          /\ reqs'[r].pc = "resumed" /\ reqs[r].id \in DOMAIN invoices)
       => LET id == reqs[r].id
              data == SafeParse(Normalize(reqs[r].formData)).data
              old == invoices[id]
              new == invoices'[id]
          IN /\ DOMAIN invoices' = DOMAIN invoices
             /\ \A j \in DOMAIN invoices \ {id} : invoices'[j] = invoices[j]
             /\ new.id = old.id /\ new.date = old.date
             /\ new.customer_id =
                  IF NonNull(data.customerId) THEN data.customerId ELSE old.customer_id
             /\ new.amount = IF NonNull(data.amount) THEN data.amount ELSE old.amount
             /\ new.status = IF NonNull(data.status) THEN data.status ELSE old.status]_vars

\* An update has just been executed on invoice 2 while invoice 1 holds other
\* values in every field.
C6_Witness ==
  \E r \in Slots :
    /\ reqs[r].pc = "resumed" /\ reqs[r].op = "updateInvoice" /\ reqs[r].id = "2"
    /\ DOMAIN invoices = {"1", "2"}
    /\ invoices["2"].customer_id = JsString("c2")
    /\ invoices["2"].amount = JsNumber(2)
    /\ invoices["2"].status = JsString("paid")
    /\ invoices["1"].customer_id = JsString("c1")
    /\ invoices["1"].amount = JsNumber(1)
    /\ invoices["1"].status = JsString("pending")

\* The rule of each field as the claim states it.
Violates(f, formData) ==
  CASE f = "customerId" -> "customerId" \notin DOMAIN formData
    [] f = "amount" -> BadAmount(formData)
    [] f = "status" ->
         \/ "status" \notin DOMAIN formData
         \/ formData["status"] \notin {"pending", "paid"}

ClaimedMsg(f) ==
  CASE f = "customerId" -> MsgCustomer
    [] f = "amount" -> MsgAmount
    [] f = "status" -> MsgStatus

\* C7: when validation fails the errors map has an entry exactly for the
\* fields that violate their rule, each entry carries that field's
\* configured message, and the result message is the handler's
\* "Missing fields" message.
C7_FieldMessages ==
  \A r \in Slots :
    LET q == reqs[r] IN
    (q.pc = "done" /\ CreateOrUpdate(q) /\ q.outcome.hasErrors) =>
      /\ q.outcome.message = ValidationMsg(q.op)
      /\ \A f \in Fields :
           /\ Violates(f, q.formData) <=> f \in DOMAIN q.outcome.errors
           /\ f \in DOMAIN q.outcome.errors => q.outcome.errors[f] = <<ClaimedMsg(f)>>

\* C8: the Layout renders SideNav and children only when auth() returned a
\* session; with no session it redirects to "/login" and renders nothing.
C8_GateRendersOnlyWithSession ==
  \A r \in Slots :
    LET q == reqs[r] IN
    (q.pc = "done" /\ q.op = "Layout") =>
      /\ q.outcome.content # {} => q.ext.t = "session"
      /\ q.ext.t = "session" =>
           q.outcome.kind = "rendered" /\ q.outcome.content = {"SideNav", "children"}
      /\ q.ext.t = "null" =>
           /\ q.outcome.kind = "redirect" /\ q.outcome.message = "/login"
           /\ q.outcome.content = {}

C8_Witness ==
  \E r \in Slots :
    /\ reqs[r].pc = "done" /\ reqs[r].op = "Layout" /\ reqs[r].ext.t = "null"
    /\ reqs[r].outcome.kind = "redirect"

\* C9 as stated: a failed auth() is treated as an absent session, the gate
\* redirecting to "/login".
C9_FailureRedirects ==
  \A r \in Slots :
    LET q == reqs[r] IN
    (q.pc = "done" /\ q.op = "Layout" /\ q.ext.t = "Error") =>
      /\ q.outcome.kind = "redirect" /\ q.outcome.message = "/login"
      /\ q.outcome.content = {}
      /\ Cardinality(Events(q.trace, "auth")) = 1

\* C9 amended: a failed auth() is raised to the caller as it is; the gate
\* renders nothing, produces no redirect and calls auth() once.
C9_FailurePropagates ==
  \A r \in Slots :
    LET q == reqs[r] IN
    (q.pc = "done" /\ q.op = "Layout" /\ q.ext.t = "Error") =>
      /\ q.outcome.kind = "thrown" /\ q.outcome.message = q.ext.v
      /\ q.outcome.content = {}
      /\ Events(q.trace, "redirect") = {}
      /\ Cardinality(Events(q.trace, "auth")) = 1

C9_Witness ==
  \E r \in Slots :
    /\ reqs[r].pc = "done" /\ reqs[r].op = "Layout" /\ reqs[r].ext.t = "Error"
    /\ reqs[r].outcome.kind = "thrown"

\* C10: authenticate returns "Success" when signIn completes, "Invalid
\* credentials." on an AuthError of type CredentialsSignin, "Something went
\* wrong." on any other AuthError, and re-raises any other failure.
C10_AuthenticateOutcomes ==
  \A r \in Slots :
    LET q == reqs[r] IN
    (q.pc = "done" /\ q.op = "authenticate") =>
      /\ q.ext.t = "ok" => q.outcome = Returned("Success", FALSE, <<>>)
      /\ (q.ext.t = "AuthError" /\ q.ext.v = "CredentialsSignin") =>
           q.outcome = Returned("Invalid credentials.", FALSE, <<>>)
      /\ (q.ext.t = "AuthError" /\ q.ext.v # "CredentialsSignin") =>
           q.outcome = Returned("Something went wrong.", FALSE, <<>>)
      /\ q.ext.t = "Error" => q.outcome = Thrown(q.ext.v)
      /\ Cardinality(Events(q.trace, "signIn")) = 1

C10_Witness ==
  \E r \in Slots :
    /\ reqs[r].pc = "done" /\ reqs[r].op = "authenticate"
    /\ reqs[r].ext = [t |-> "Error", v |-> "TypeError"]
    /\ reqs[r].outcome.kind = "thrown"

====
